---- MODULE Spec2Model ----
(***************************************************************************)
(* Blogicum (blog/models.py, blog/views.py): the datastore of Users,       *)
(* Categories, Locations, Posts and Comments with its on_delete rules, and *)
(* the views that read it (home feed, category feed, post detail) and      *)
(* write it (post and comment create / update / delete).                   *)
(*                                                                         *)
(* A row is identified by its primary key, a positive integer issued by an *)
(* auto-increment counter and never reused.  A table is a function from    *)
(* the keys of its stored rows to their fields.  Post.title, Post.text,    *)
(* Post.image and the created_at columns are read by no view logic and are *)
(* left out; Comment.text stands for the content a form edits.  A queryset *)
(* is the set of keys it selects: order_by and annotate change neither     *)
(* which rows it holds nor what get_object_or_404 finds in it.             *)
(***************************************************************************)
EXTENDS Integers, FiniteSets

VARIABLES
    users,       \* the ids of the stored Users (models.User)
    categories,  \* Category id -> [slug, is_published]
    locations,   \* the ids of the stored Locations
    posts,       \* Post id -> [author, is_published, pub_date, category, location]
    comments,    \* Comment id -> [author, post, text]
    autoid,      \* table name -> the last id the table issued
    now          \* what datetime.today() returns to a read

vars == <<users, categories, locations, posts, comments, autoid, now>>

\* ------------------------------------------------------------------ bounds
MaxUsers == 2
MaxCategories == 2
MaxLocations == 1
MaxPosts == 2
MaxComments == 1
MaxTime == 1

UserIds == 1..MaxUsers
PostIds == 1..MaxPosts
CommentIds == 1..MaxComments
Times == 0..MaxTime
\* Category.slug: as many slugs as there can be categories.
Slugs == 1..MaxCategories
Texts == {"first", "edited"}

\* ------------------------------------------------------------ program values
\* null=True: the value of a foreign key whose target was deleted.
NULL == 0
\* request.user of a request without a session (AnonymousUser).
AnonymousUser == 0
\* get_object_or_404 found no row: the request ends as "not found".
Http404 == -1

\* The users a request can come from: anonymous, or a stored user.
Requesters == users \cup {AnonymousUser}

is_authenticated(user) == user # AnonymousUser

Response(status, to, arg) == [status |-> status, to |-> to, arg |-> arg]
NotFound == Response(404, "", 0)
Redirect(to, arg) == Response(302, to, arg)
\* LoginRequiredMixin.handle_no_permission: an anonymous request goes to login.
RedirectLogin == Redirect("login", 0)
\* form_invalid: the form is rendered again, nothing is saved.
FormInvalid == Response(200, "form", 0)

\* The tables, as one value: what a request finds and what it leaves.
DB == [users |-> users, categories |-> categories, locations |-> locations,
       posts |-> posts, comments |-> comments, autoid |-> autoid]

\* What a view hands back: the response, and the tables it leaves.
Result(response, db) == [response |-> response, db |-> db]

\* A table without the rows in gone.
Without(table, gone) == [k \in DOMAIN table \ gone |-> table[k]]
\* A table with one more row.
With(table, key, row) ==
    [k \in DOMAIN table \cup {key} |-> IF k = key THEN row ELSE table[k]]

\* ---------------------------------------------------------------- querysets
get_object_or_404(queryset, pk) == IF pk \in queryset THEN pk ELSE Http404

\* filtered_post, had the category lookup let a post without category pass.
filtered_post_null_category_passes(queryset) ==
    {p \in queryset :
        /\ posts[p].pub_date <= now
        /\ posts[p].is_published
        /\ \/ posts[p].category = NULL
           \/ categories[posts[p].category].is_published}

\* filtered_post, had it compared with pub_date__lt.
filtered_post_strictly_past(queryset) ==
    {p \in queryset :
        /\ posts[p].pub_date < now
        /\ posts[p].is_published
        /\ posts[p].category # NULL
        /\ categories[posts[p].category].is_published}

\* views.filtered_post: posts.filter(pub_date__lte=today, is_published=True,
\* category__is_published=True).  The lookup through category joins the
\* category table, so a row whose category is NULL matches no category.
filtered_post(queryset) ==
    {p \in queryset :
        /\ posts[p].pub_date <= now
        /\ posts[p].is_published
        /\ posts[p].category # NULL
        /\ categories[posts[p].category].is_published}

\* PostListView.get_queryset
PostListView_get_queryset == filtered_post(DOMAIN posts)

\* PostDetailView.get_object.  For an authenticated user the queryset is
\* `posts.filter(is_published=True) or posts.filter(author=user)`: Python's
\* `or` yields its left operand when that queryset is non-empty (some stored
\* post is published) and the right operand otherwise.
PostDetailView_get_object(user, post_id) ==
    LET published == {p \in DOMAIN posts : posts[p].is_published}
        own == {p \in DOMAIN posts : posts[p].author = user}
    IN get_object_or_404(
           IF is_authenticated(user)
           THEN (IF published # {} THEN published ELSE own)
           ELSE filtered_post(DOMAIN posts),
           post_id)

\* PostCategoryView's category lookup, had it left out is_published=True.
PostCategoryView_category_any(category_slug) ==
    LET found == {c \in DOMAIN categories : categories[c].slug = category_slug}
    IN IF found = {} THEN Http404 ELSE CHOOSE c \in found : TRUE

\* PostCategoryView.get_queryset: get_object_or_404(Category, slug=...,
\* is_published=True), then filtered_post(category.posts.all()).  slug is
\* unique, so at most one category is found.
PostCategoryView_category(category_slug) ==
    LET found == {c \in DOMAIN categories :
                     /\ categories[c].slug = category_slug
                     /\ categories[c].is_published}
    IN IF found = {} THEN Http404 ELSE CHOOSE c \in found : TRUE

PostCategoryView_get_queryset(category_slug) ==
    LET category == PostCategoryView_category(category_slug)
    IN IF category = Http404
       THEN [status |-> 404, object_list |-> {}]
       ELSE [status |-> 200,
             object_list |->
                 filtered_post({p \in DOMAIN posts : posts[p].category = category})]

\* -------------------------------------------------------------- post views
\* super().dispatch: the request goes on to the view.
Super == Response(0, "super", 0)

\* PostMixin.dispatch.  It runs before LoginRequiredMixin.dispatch; the one
\* user it passes on is the author, who is authenticated.
PostMixin_dispatch(user, post_id) ==
    IF get_object_or_404(DOMAIN posts, post_id) = Http404 THEN NotFound
    ELSE IF posts[post_id].author # user THEN Redirect("post_detail", post_id)
    ELSE Super

\* The fields PostForm binds.  category and location are null=True without
\* blank=True, so the model form requires a stored Category and Location.
PostForms ==
    [is_published : BOOLEAN, pub_date : Times,
     category : DOMAIN categories, location : locations]

PostRow(author, form) ==
    [author |-> author, is_published |-> form.is_published,
     pub_date |-> form.pub_date, category |-> form.category,
     location |-> form.location]

\* POST to PostCreateView: form_valid sets the author and saves.
PostCreateView(user, form, valid) ==
    IF ~is_authenticated(user) THEN Result(RedirectLogin, DB)
    ELSE IF ~valid THEN Result(FormInvalid, DB)
    ELSE Result(Redirect("profile", user),
                [DB EXCEPT !.posts = With(posts, autoid.post + 1,
                                          PostRow(user, form)),
                           !.autoid.post = @ + 1])

\* POST to PostUpdateView.
PostUpdateView(user, post_id, form, valid) ==
    LET d == PostMixin_dispatch(user, post_id)
    IN IF d # Super THEN Result(d, DB)
       ELSE IF ~valid THEN Result(FormInvalid, DB)
       ELSE Result(Redirect("post_detail", post_id),
                   [DB EXCEPT !.posts[post_id] = PostRow(@.author, form)])

\* Post.delete: Comment.post is on_delete=CASCADE.
DeletePosts(db, gone) ==
    [db EXCEPT !.posts = Without(@, gone),
               !.comments = Without(@, {c \in DOMAIN @ : @[c].post \in gone})]

\* POST to PostDeleteView.
PostDeleteView(user, post_id) ==
    LET d == PostMixin_dispatch(user, post_id)
    IN IF d # Super THEN Result(d, DB)
       ELSE Result(Redirect("profile", user), DeletePosts(DB, {post_id}))

\* ----------------------------------------------------------- comment views
\* What a client can submit to the comment form: the text, and whatever
\* author and post references it adds to the form data.
CommentForms == [text : Texts, author : UserIds, post : PostIds]

\* CommentCreateView.form_valid, had it set the author alone.
CommentCreateView_form_valid_keeps_post(user, post_id, form) ==
    [[text |-> form.text, author |-> form.author, post |-> form.post]
        EXCEPT !.author = user]

\* CommentCreateView.form_valid: the instance the form built, with author
\* and post overwritten from the request and the path.
CommentCreateView_form_valid(user, post_id, form) ==
    [[text |-> form.text, author |-> form.author, post |-> form.post]
        EXCEPT !.author = user, !.post = post_id]

\* POST to CommentCreateView.  form_valid resolves the post of the path and
\* raises Http404 before anything is saved.
CommentCreateView(user, post_id, form, valid) ==
    IF ~is_authenticated(user) THEN Result(RedirectLogin, DB)
    ELSE IF ~valid THEN Result(FormInvalid, DB)
    ELSE IF get_object_or_404(DOMAIN posts, post_id) = Http404
    THEN Result(NotFound, DB)
    ELSE Result(Redirect("post_detail", post_id),
                [DB EXCEPT !.comments =
                               With(comments, autoid.comment + 1,
                                    CommentCreateView_form_valid(user, post_id, form)),
                           !.autoid.comment = @ + 1])

\* CommentMixin.dispatch, had it left out the comparison with the author.
CommentMixin_dispatch_unguarded(user, comment_id) ==
    IF get_object_or_404(DOMAIN comments, comment_id) = Http404 THEN NotFound
    ELSE Super

\* CommentMixin.dispatch
CommentMixin_dispatch(user, comment_id) ==
    IF get_object_or_404(DOMAIN comments, comment_id) = Http404 THEN NotFound
    ELSE IF comments[comment_id].author # user
    THEN Redirect("post_detail", comments[comment_id].post)
    ELSE Super

\* CommentMixin.get_success_url: reverse('blog:post_detail',
\* args=[self.kwargs['comment_id']]).
CommentMixin_get_success_url(comment_id) == Redirect("post_detail", comment_id)

\* POST to CommentUpdateView: the form edits the text.
CommentUpdateView(user, comment_id, text, valid) ==
    LET d == CommentMixin_dispatch(user, comment_id)
    IN IF d # Super THEN Result(d, DB)
       ELSE IF ~valid THEN Result(FormInvalid, DB)
       ELSE Result(CommentMixin_get_success_url(comment_id),
                   [DB EXCEPT !.comments[comment_id].text = text])

\* POST to CommentDeleteView.
CommentDeleteView(user, comment_id) ==
    LET d == CommentMixin_dispatch(user, comment_id)
    IN IF d # Super THEN Result(d, DB)
       ELSE Result(CommentMixin_get_success_url(comment_id),
                   [DB EXCEPT !.comments = Without(@, {comment_id})])

\* ------------------------------------------------- datastore (models.py)
\* A user registers: the tables with one more user.
UserCreate ==
    [DB EXCEPT !.users = @ \cup {autoid.user + 1}, !.autoid.user = @ + 1]

\* User deletion, had Comment.post not cascaded: the comments that others
\* wrote on the user's posts stay.
UserDelete_keeps_comments(user) ==
    [DB EXCEPT
        !.users = @ \ {user},
        !.posts = Without(@, {p \in DOMAIN @ : @[p].author = user}),
        !.comments = Without(@, {c \in DOMAIN @ : @[c].author = user})]

\* Post.author and Comment.author are on_delete=CASCADE, and so is
\* Comment.post: the user's comments go, and the user's posts with every
\* comment on them.
UserDelete(user) ==
    LET gone == {p \in DOMAIN posts : posts[p].author = user}
    IN [DeletePosts(DB, gone) EXCEPT
           !.users = @ \ {user},
           !.comments = Without(@, {c \in DOMAIN @ : @[c].author = user})]

\* Category(slug, is_published); slug is unique=True.
CategoryCreate(slug, is_published) ==
    [DB EXCEPT !.categories = With(@, autoid.category + 1,
                                   [slug |-> slug, is_published |-> is_published]),
               !.autoid.category = @ + 1]

\* Category.is_published is set or cleared.
CategoryPublish(category, is_published) ==
    [DB EXCEPT !.categories[category].is_published = is_published]

\* Category deletion, had Post.category been on_delete=CASCADE.
CategoryDelete_cascade(category) ==
    [DeletePosts(DB, {p \in DOMAIN posts : posts[p].category = category})
        EXCEPT !.categories = Without(@, {category})]

\* Post.category is on_delete=SET_NULL.
CategoryDelete(category) ==
    [DB EXCEPT !.categories = Without(@, {category}),
               !.posts = [p \in DOMAIN @ |->
                            IF @[p].category = category
                            THEN [@[p] EXCEPT !.category = NULL] ELSE @[p]]]

LocationCreate ==
    [DB EXCEPT !.locations = @ \cup {autoid.location + 1},
               !.autoid.location = @ + 1]

\* Post.location is on_delete=SET_NULL.
LocationDelete(location) ==
    [DB EXCEPT !.locations = @ \ {location},
               !.posts = [p \in DOMAIN @ |->
                            IF @[p].location = location
                            THEN [@[p] EXCEPT !.location = NULL] ELSE @[p]]]

\* ------------------------------------------------------------------ actions
\* The tables become db; the clock is not a table.
Commit(db) ==
    /\ users' = db.users
    /\ categories' = db.categories
    /\ locations' = db.locations
    /\ posts' = db.posts
    /\ comments' = db.comments
    /\ autoid' = db.autoid
    /\ UNCHANGED now

\* The datastore after the migrations: every table empty.
Init ==
    /\ users = {}
    /\ categories = [c \in {} |-> 0]
    /\ locations = {}
    /\ posts = [p \in {} |-> 0]
    /\ comments = [c \in {} |-> 0]
    /\ autoid = [user |-> 0, category |-> 0, location |-> 0,
                 post |-> 0, comment |-> 0]
    /\ now = 0

Register ==
    /\ autoid.user < MaxUsers
    /\ Commit(UserCreate)

Unregister == \E user \in users : Commit(UserDelete(user))

AddCategory ==
    /\ autoid.category < MaxCategories
    /\ \E slug \in Slugs, is_published \in BOOLEAN :
          /\ \A c \in DOMAIN categories : categories[c].slug # slug
          /\ Commit(CategoryCreate(slug, is_published))

SetCategoryPublished ==
    \E category \in DOMAIN categories, is_published \in BOOLEAN :
        /\ categories[category].is_published # is_published
        /\ Commit(CategoryPublish(category, is_published))

RemoveCategory == \E category \in DOMAIN categories : Commit(CategoryDelete(category))

AddLocation ==
    /\ autoid.location < MaxLocations
    /\ Commit(LocationCreate)

RemoveLocation == \E location \in locations : Commit(LocationDelete(location))

\* Time passes: datetime.today() of the next read is later.
Tick ==
    /\ now < MaxTime
    /\ now' = now + 1
    /\ UNCHANGED <<users, categories, locations, posts, comments, autoid>>

PostCreate ==
    /\ autoid.post < MaxPosts
    /\ \E user \in Requesters, form \in PostForms, valid \in BOOLEAN :
          Commit(PostCreateView(user, form, valid).db)

PostUpdate ==
    \E user \in Requesters, post_id \in PostIds,
       form \in PostForms, valid \in BOOLEAN :
        Commit(PostUpdateView(user, post_id, form, valid).db)

PostDelete ==
    \E user \in Requesters, post_id \in PostIds :
        Commit(PostDeleteView(user, post_id).db)

CommentCreate ==
    /\ autoid.comment < MaxComments
    /\ \E user \in Requesters, post_id \in PostIds,
          form \in CommentForms, valid \in BOOLEAN :
          Commit(CommentCreateView(user, post_id, form, valid).db)

CommentUpdate ==
    \E user \in Requesters, comment_id \in CommentIds,
       text \in Texts, valid \in BOOLEAN :
        Commit(CommentUpdateView(user, comment_id, text, valid).db)

CommentDelete ==
    \E user \in Requesters, comment_id \in CommentIds :
        Commit(CommentDeleteView(user, comment_id).db)

\* ------------------------------------------------------------ specification
Next ==
    \/ Register \/ Unregister
    \/ AddCategory \/ SetCategoryPublished \/ RemoveCategory
    \/ AddLocation \/ RemoveLocation
    \/ Tick
    \/ PostCreate \/ PostUpdate \/ PostDelete
    \/ CommentCreate \/ CommentUpdate \/ CommentDelete

Spec == Init /\ [][Next]_vars

\* --------------------------------------------------------------- properties
\* The home feed, as the set of posts a reader finds in it.
Feed == PostListView_get_queryset

\* The public-visibility predicate as the specification words it: a post
\* without a category counts as visible.
PubliclyVisible(p) ==
    /\ posts[p].is_published
    /\ posts[p].pub_date <= now
    /\ \/ posts[p].category = NULL
       \/ categories[posts[p].category].is_published

\* The post has a stored category, and that category is published.
InPublishedCategory(p) ==
    /\ posts[p].category # NULL
    /\ categories[posts[p].category].is_published

\* C1 as stated: a stored post is in the home feed iff it is published, its
\* pub_date is not after now, and its category is null or published.
C1_FeedIsPubliclyVisible ==
    \A p \in DOMAIN posts : p \in Feed <=> PubliclyVisible(p)

\* C1 amended: a stored post is in the home feed iff it is published, its
\* pub_date is not after now, and it has a category that is published; a
\* post whose category is null is never in the feed.
C1_FeedRequiresPublishedCategory ==
    \A p \in DOMAIN posts :
        /\ p \in Feed <=> /\ posts[p].is_published
                          /\ posts[p].pub_date <= now
                          /\ InPublishedCategory(p)
        /\ posts[p].category = NULL => p \notin Feed

\* A published, past-dated post that lost its category is stored beside a
\* post that the feed shows.
C1_Witness ==
    \E p, q \in DOMAIN posts :
        /\ posts[p].category = NULL
        /\ posts[p].is_published
        /\ posts[p].pub_date <= now
        /\ p \notin Feed
        /\ q \in Feed

\* C2: the author of a stored post resolves it by detail lookup, whatever
\* its publication state and whatever other posts are stored.
C2_AuthorResolvesOwnPost ==
    \A p \in DOMAIN posts :
        PostDetailView_get_object(posts[p].author, p) = p

\* C3: a viewer who is anonymous or a user other than the author resolves a
\* stored post by detail lookup iff the post is publicly visible.
C3_OthersResolveOnlyVisible ==
    \A p \in DOMAIN posts : \A viewer \in Requesters \ {posts[p].author} :
        PostDetailView_get_object(viewer, p) = p <=> PubliclyVisible(p)

\* C4: an update or delete request on a stored post or comment from anyone
\* but its author leaves every table as it was and is answered by a
\* redirect to the detail view of the post concerned.
C4_NonAuthorWritesNothing ==
    \A user \in Requesters :
        /\ \A p \in DOMAIN posts : user # posts[p].author =>
              LET denied == Result(Redirect("post_detail", p), DB)
              IN /\ PostDeleteView(user, p) = denied
                 /\ \A form \in PostForms, valid \in BOOLEAN :
                       PostUpdateView(user, p, form, valid) = denied
        /\ \A c \in DOMAIN comments : user # comments[c].author =>
              LET denied == Result(Redirect("post_detail", comments[c].post), DB)
              IN /\ CommentDeleteView(user, c) = denied
                 /\ \A text \in Texts, valid \in BOOLEAN :
                       CommentUpdateView(user, c, text, valid) = denied

\* A comment and its post are stored, a category and a location exist for
\* a post form, and a stored user is the author of neither.
C4_Witness ==
    \E c \in DOMAIN comments, user \in users :
        /\ user # comments[c].author
        /\ user # posts[comments[c].post].author
        /\ comments[c].post # c
        /\ PostForms # {}

C6_DeleteSetsNull ==
    /\ \A p \in DOMAIN posts :
          /\ posts[p].category \in DOMAIN categories \cup {NULL}
          /\ posts[p].location \in locations \cup {NULL}
    /\ \A category \in DOMAIN categories :
          LET db == CategoryDelete(category)
          IN /\ category \notin DOMAIN db.categories
             /\ DOMAIN db.posts = DOMAIN posts
             /\ db.comments = comments
             /\ \A p \in DOMAIN posts :
                   /\ db.posts[p].category =
                         IF posts[p].category = category
                         THEN NULL ELSE posts[p].category
                   /\ [db.posts[p] EXCEPT !.category = 0]
                         = [posts[p] EXCEPT !.category = 0]
    /\ \A location \in locations :
          LET db == LocationDelete(location)
          IN /\ location \notin db.locations
             /\ DOMAIN db.posts = DOMAIN posts
             /\ db.comments = comments
             /\ \A p \in DOMAIN posts :
                   /\ db.posts[p].location =
                         IF posts[p].location = location
                         THEN NULL ELSE posts[p].location
                   /\ [db.posts[p] EXCEPT !.location = 0]
                         = [posts[p] EXCEPT !.location = 0]

\* A commented post has lost its category and its location, beside a post
\* that kept its category, and a category is stored to delete.
C6_Witness ==
    \E p, q \in DOMAIN posts :
        /\ posts[p].category = NULL
        /\ posts[p].location = NULL
        /\ \E c \in DOMAIN comments : comments[c].post = p
        /\ posts[q].category \in DOMAIN categories

\* C7: every stored post has a stored author, every stored comment has a
\* stored author and a stored post; deleting a user leaves no post and no
\* comment of that user and no comment on that user's posts, and deleting a
\* post leaves no comment on it, whoever wrote the comment.
C7_AuthorsAndPostsExist ==
    /\ \A p \in DOMAIN posts : posts[p].author \in users
    /\ \A c \in DOMAIN comments :
          /\ comments[c].author \in users
          /\ comments[c].post \in DOMAIN posts
    /\ \A user \in users :
          LET db == UserDelete(user)
          IN /\ DOMAIN db.posts = {p \in DOMAIN posts : posts[p].author # user}
             /\ DOMAIN db.comments =
                   {c \in DOMAIN comments :
                       /\ comments[c].author # user
                       /\ posts[comments[c].post].author # user}
    /\ \A p \in DOMAIN posts :
          LET db == PostDeleteView(posts[p].author, p).db
          IN /\ DOMAIN db.posts = DOMAIN posts \ {p}
             /\ DOMAIN db.comments =
                   {c \in DOMAIN comments : comments[c].post # p}

\* A user has been deleted, and a post and the one comment are gone with
\* him, while another user and that user's post are still stored.
C7_Witness ==
    /\ Cardinality(users) < autoid.user
    /\ Cardinality(DOMAIN posts) < autoid.post
    /\ Cardinality(DOMAIN comments) < autoid.comment
    /\ \E p \in DOMAIN posts : posts[p].author \in users

\* C8: a published post in a published category is absent from the home
\* feed at every instant before its pub_date and present at every instant
\* from its pub_date on, by the comparison with now alone; at every instant
\* its author resolves it by detail lookup.
C8_FutureDatedPostAppearsOnTime ==
    \A p \in DOMAIN posts :
        posts[p].is_published /\ InPublishedCategory(p) =>
            /\ now < posts[p].pub_date => p \notin Feed
            /\ posts[p].pub_date <= now => p \in Feed
            /\ PostDetailView_get_object(posts[p].author, p) = p

\* A published post in a published category, dated after instant 0, is in
\* the feed now that its pub_date has come.
C8_Witness ==
    \E p \in DOMAIN posts :
        /\ posts[p].is_published
        /\ InPublishedCategory(p)
        /\ 0 < posts[p].pub_date
        /\ posts[p].pub_date <= now
        /\ p \in Feed

\* C9: the category listing of a slug is "not found" when no category has
\* the slug or the category is unpublished; otherwise it lists exactly the
\* posts of that category that are published and not dated after now.  No
\* post of an unpublished category is in the category feed or the home
\* feed, and unpublishing a category leaves every post stored as it was.
C9_CategoryListing ==
    /\ \A slug \in Slugs :
          LET r == PostCategoryView_get_queryset(slug)
              named == {c \in DOMAIN categories : categories[c].slug = slug}
          IN /\ Cardinality(named) <= 1
             /\ (\A c \in named : ~categories[c].is_published) =>
                   r.status = 404 /\ r.object_list = {}
             /\ \A c \in named : categories[c].is_published =>
                   /\ r.status = 200
                   /\ r.object_list = {p \in DOMAIN posts :
                                          /\ posts[p].category = c
                                          /\ posts[p].is_published
                                          /\ posts[p].pub_date <= now}
    /\ \A c \in DOMAIN categories :
          /\ CategoryPublish(c, FALSE).posts = posts
          /\ ~categories[c].is_published =>
                \A p \in DOMAIN posts : posts[p].category = c =>
                    /\ p \notin Feed
                    /\ \A slug \in Slugs :
                          p \notin PostCategoryView_get_queryset(slug).object_list

\* An unpublished category holds a published, past-dated post, while the
\* listing of another category shows a post.
C9_Witness ==
    \E c \in DOMAIN categories, p \in DOMAIN posts, slug \in Slugs :
        /\ ~categories[c].is_published
        /\ posts[p].category = c
        /\ posts[p].is_published
        /\ posts[p].pub_date <= now
        /\ PostCategoryView_get_queryset(slug).object_list # {}

\* C10: when the author of a stored comment updates or deletes it, the
\* redirect goes to the detail view of the post the comment belongs to.
C10_AuthorRedirectedToCommentsPost ==
    \A c \in DOMAIN comments :
        LET to_post == Redirect("post_detail", comments[c].post)
        IN /\ CommentDeleteView(comments[c].author, c).response = to_post
           /\ \A text \in Texts :
                 CommentUpdateView(comments[c].author, c, text, TRUE).response
                     = to_post

====
